---- MODULE Spec2Model ----
(***************************************************************************)
(* A model of androidsink (src/src/lib.rs): create_pipeline, main_loop and *)
(* run, the new-sample callback installed on the appsink, the streaming    *)
(* scheduler that drives it, and the Android entry point nativeRun with    *)
(* its RUNNING flag.                                                       *)
(*                                                                         *)
(* Every piece of per-run state is indexed by the run it belongs to: one   *)
(* run per nativeRun call that spawns a thread (Spec starts run 1 directly *)
(* through run()).                                                         *)
(***************************************************************************)
EXTENDS Integers, Sequences, FiniteSets

\* Bounds of the model.
MaxCalls == 2      \* nativeRun invocations, each from a caller thread of its own
MaxPosts == 2      \* messages the streaming side posts on one run's bus
MaxBuffers == 2    \* samples the scheduler delivers to one run's appsink
MaxLen == 2        \* samples in the slice the rms is computed over

Runs == 1..MaxCalls

\* ------------------------------------------------------------------ values

\* gst::State
States == <<"Null", "Ready", "Paused", "Playing">>

StateIndex(s) == CHOOSE i \in 1..4 : States[i] = s

\* Object paths, msg.get_src().map(|s| s.get_path_string())
NoSrc == "<no source>"
PipelinePath == "/GstPipeline:pipeline0"
SrcPath == "/GstPipeline:pipeline0/GstAudioTestSrc:audiotestsrc0"
SinkPath == "/GstPipeline:pipeline0/GstAppSink:appsink0"

\* glib::Error values: a domain and a message.
NoErr == [domain |-> "none", message |-> ""]
StreamErr == [domain |-> "gst-stream-error", message |-> "Internal data stream error."]
GetBufferErr == [domain |-> "gst-resource-error", message |-> "Failed to get buffer from appsink"]
MapErr == [domain |-> "gst-resource-error", message |-> "Failed to map buffer readable"]
SliceErr == [domain |-> "gst-resource-error", message |-> "Failed to interprete buffer as S16 PCM"]

CallbackErrs == {GetBufferErr, MapErr, SliceErr}

\* println!'s panic when the write to stdout fails, and the error message the
\* binding posts for a panic it caught in a callback.
StdoutPanic == "failed printing to stdout"

PanicErr(text) == [domain |-> "gst-library-error", message |-> text]

\* err.get_debug(): Option<String>
NoDebug == "<none>"
Debugs == {NoDebug, "gstbasesrc.c(3072): gst_base_src_loop ()"}
CallbackDebug == "src/lib.rs: new_sample ()"

\* Messages on the bus, as MessageView sees them.
NoMsg == [kind |-> "none", src |-> NoSrc, err |-> NoErr, debug |-> NoDebug]
EosMsg == [kind |-> "Eos", src |-> PipelinePath, err |-> NoErr, debug |-> NoDebug]
OtherMsg == [kind |-> "Other", src |-> PipelinePath, err |-> NoErr, debug |-> NoDebug]

ErrorMsg(src, err, debug) == [kind |-> "Error", src |-> src, err |-> err, debug |-> debug]

\* What the streaming side of the graph (not the callback) may post.
SchedMessages ==
    {EosMsg, OtherMsg, ErrorMsg(NoSrc, StreamErr, NoDebug)}
    \cup {ErrorMsg(SrcPath, StreamErr, d) : d \in Debugs}

\* Result<(), Error> of create_pipeline().and_then(main_loop)
NoResult == [tag |-> "none"]
OkResult == [tag |-> "Ok"]

MissingElement(name) == [tag |-> "MissingElement", name |-> name]

StateChangeError(target) == [tag |-> "StateChangeError", target |-> target]

BoolError(what) == [tag |-> "BoolError", what |-> what]

VARIABLES
    RUNNING,    \* static mut RUNNING
    call,       \* call[c]: where nativeRun invocation c stands
    pc,         \* pc[r]: where run r's thread stands
    pipe,       \* pipe[r]: what create_pipeline built
    gstate,     \* gstate[r]: the pipeline's gst::State
    requests,   \* requests[r]: the set_state calls made, with their outcome
    bus,        \* bus[r]: the messages posted and not yet popped
    msg,        \* msg[r]: the message main_loop took last
    result,     \* result[r]: what create_pipeline().and_then(main_loop) gave
    sched,      \* sched[r]: the streaming scheduler
    cb,         \* cb[r]: the new-sample callback's invocation
    rms         \* the rms computation of lines 113-120 on one slice of samples

vars == <<RUNNING, call, pc, pipe, gstate, requests, bus, msg, result, sched, cb, rms>>

\* ---------------------------------------------------------- create_pipeline

I32Max == 2147483647

NoCaps == [media |-> "none", format |-> "none", layout |-> "none", channels |-> 0,
           rateMin |-> 0, rateMax |-> 0]

\* gst::Caps::new_simple("audio/x-raw", ...), lines 52-60
SinkCaps == [media |-> "audio/x-raw", format |-> "S16LE", layout |-> "interleaved",
             channels |-> 1, rateMin |-> 1, rateMax |-> I32Max]

\* gst::Pipeline::new(None): nothing made, linked or installed yet.
NewPipe == [made |-> <<>>, added |-> FALSE, linked |-> FALSE, caps |-> NoCaps,
            callbacks |-> FALSE]

\* gst::ElementFactory::make(name, None) against the registry `avail`.
Make(name, avail) == [name |-> name, ok |-> name \in avail]

C5_MutCreatePipeline(avail, addOk, linkOk) ==
    LET src == Make("audiotestsrc", avail)
        sink == Make("appsink", avail)
        both == [NewPipe EXCEPT !.made = <<src, sink>>]
    IN  IF ~src.ok THEN [pipe |-> both, res |-> MissingElement("audiotestsrc")]
        ELSE IF ~sink.ok THEN [pipe |-> both, res |-> MissingElement("appsink")]
        ELSE IF ~addOk THEN [pipe |-> both, res |-> BoolError("add_many")]
        ELSE IF ~linkOk
             THEN [pipe |-> [both EXCEPT !.added = TRUE], res |-> BoolError("link")]
        ELSE [pipe |-> [both EXCEPT !.added = TRUE, !.linked = TRUE, !.caps = SinkCaps,
                                    !.callbacks = TRUE],
              res |-> OkResult]

C18_MutCreatePipeline(avail, addOk, linkOk) ==
    LET src == Make("audiotestsrc", avail)
        p1 == [NewPipe EXCEPT !.made = <<src>>]
        sink == Make("appsink", avail)
        p2 == [p1 EXCEPT !.made = <<src, sink>>]
        p3 == [p2 EXCEPT !.added = TRUE]
        p4 == [p3 EXCEPT !.linked = TRUE]
    IN  IF ~src.ok THEN [pipe |-> p1, res |-> MissingElement("audiotestsrc")]
        ELSE IF ~sink.ok THEN [pipe |-> p2, res |-> MissingElement("appsink")]
        ELSE IF ~addOk THEN [pipe |-> p2, res |-> BoolError("add_many")]
        ELSE IF ~linkOk THEN [pipe |-> p3, res |-> BoolError("link")]
        ELSE [pipe |-> p4, res |-> OkResult]

\* create_pipeline(): each `?` returns at once with what was built so far.
CreatePipeline(avail, addOk, linkOk) ==
    LET src == Make("audiotestsrc", avail)
        p1 == [NewPipe EXCEPT !.made = <<src>>]
        sink == Make("appsink", avail)
        p2 == [p1 EXCEPT !.made = <<src, sink>>]
        p3 == [p2 EXCEPT !.added = TRUE]
        p4 == [p3 EXCEPT !.linked = TRUE]
        p5 == [p4 EXCEPT !.caps = SinkCaps]
        p6 == [p5 EXCEPT !.callbacks = TRUE]
    IN  IF ~src.ok THEN [pipe |-> p1, res |-> MissingElement("audiotestsrc")]
        ELSE IF ~sink.ok THEN [pipe |-> p2, res |-> MissingElement("appsink")]
        ELSE IF ~addOk THEN [pipe |-> p2, res |-> BoolError("add_many")]
        ELSE IF ~linkOk THEN [pipe |-> p3, res |-> BoolError("link")]
        ELSE [pipe |-> p6, res |-> OkResult]

\* The registries the stage factory may hold.
Registries == SUBSET {"audiotestsrc", "appsink"}

\* ---------------------------------------------------------------- set_state

Min(a, b) == IF a < b THEN a ELSE b

Max(a, b) == IF a > b THEN a ELSE b

\* pipeline.set_state(target) from state `cur`: it succeeds and the graph is in
\* `target`, or it is rejected and the graph is left in one of the states before
\* `target` on the way from `cur`.
SetStateOutcomes(cur, target) ==
    LET c == StateIndex(cur)
        t == StateIndex(target)
    IN  {[ok |-> TRUE, state |-> target]}
        \cup {[ok |-> FALSE, state |-> States[i]] :
                i \in {j \in Min(c, t)..Max(c, t) : j # t}}

\* ---------------------------------------------------------------- main_loop

\* src: msg.get_src().map(|s| String::from(s.get_path_string()))
\*         .unwrap_or_else(|| String::from("None"))
PathString(src) == IF src = NoSrc THEN "None" ELSE src

\* err.get_error().to_string(): glib::Error displays its message.
ErrToString(err) == err.message

C1_MutErrorMessage(m) ==
    [tag |-> "ErrorMessage", src |-> PathString(NoSrc), error |-> ErrToString(m.err),
     debug |-> m.debug, source |-> m.err]

\* ErrorMessage { src, error, debug, source }, lines 148-156
ErrorMessage(m) ==
    [tag |-> "ErrorMessage", src |-> PathString(m.src), error |-> ErrToString(m.err),
     debug |-> m.debug, source |-> m.err]

C9_MutLoopArm(m) ==
    CASE m.kind = "Eos" -> "leave"
      [] m.kind = "Error" -> "err_null"
      [] OTHER -> "leave"

C7_MutLoopArm(m) ==
    CASE m.kind = "Eos" -> "loop"
      [] m.kind = "Error" -> "err_null"
      [] OTHER -> "loop"

C8_MutLoopArm(m) ==
    CASE m.kind = "Eos" -> "leave"
      [] m.kind = "Error" /\ m.err \notin CallbackErrs -> "err_null"
      [] OTHER -> "loop"

\* match msg.view(): where the loop goes on a message.
LoopArm(m) ==
    CASE m.kind = "Eos" -> "leave"
      [] m.kind = "Error" -> "err_null"
      [] OTHER -> "loop"

\* The Error arm, lines 146-158: set_state(Null)? and then the ErrorMessage.
ErrorArmResult(ok, m) == IF ok THEN ErrorMessage(m) ELSE StateChangeError("Null")

C3_MutLeaveResult(ok) == StateChangeError("Null")

C10_MutLeaveResult(ok) == OkResult

\* After the loop, lines 164-166: set_state(Null)? and then Ok(()).
LeaveResult(ok) == IF ok THEN OkResult ELSE StateChangeError("Null")

\* ---------------------------------------------------------------------- rms

\* i16::MAX, line 116, and i16::MIN.
I16Max == 32767

I16Min == -(I16Max + 1)

\* Sums of squares pass the checker's integers: they are kept in two digits
\* of base 2^15, hi * Base + lo.
Base == I16Max + 1

Limbs(x) == [hi |-> x \div Base, lo |-> x % Base]

LimbAdd(a, b) ==
    LET t == a.lo + b.lo
    IN  [hi |-> a.hi + b.hi + (t \div Base), lo |-> t % Base]

LimbLeq(a, b) == a.hi < b.hi \/ (a.hi = b.hi /\ a.lo <= b.lo)

\* line 116: f = f64::from(*sample) / f64::from(i16::MAX), as the exact fraction.
Normalized(sample) == [num |-> sample, den |-> I16Max]

C16_MutSquared(f) == [num |-> f.num * f.den, den |-> f.den * f.den]

\* line 117: f * f
Squared(f) == [num |-> f.num * f.num, den |-> f.den * f.den]

\* The slices the rms is taken over: the values at the ends of i16 and around 0.
SampleValues == {I16Min, -I16Max, -1, 0, 1, I16Max}

SampleSeqs == UNION {[1..n -> SampleValues] : n \in 1..MaxLen}

\* The computation before it starts on `samples`: the sum is 0.0.
RmsStart(samples) ==
    [pc |-> "sum", samples |-> samples, i |-> 0, sum |-> Limbs(0),
     den |-> I16Max * I16Max, len |-> 0]

RmsOff == [pc |-> "off", samples |-> <<>>, i |-> 0, sum |-> Limbs(0),
           den |-> I16Max * I16Max, len |-> 0]

\* lines 113-119: .map(|sample| f * f).sum(), one sample at a time. The terms
\* share the denominator i16::MAX^2; `sum` holds the numerator.
RmsAccumulate ==
    /\ rms.pc = "sum"
    /\ rms.i < Len(rms.samples)
    /\ LET sq == Squared(Normalized(rms.samples[rms.i + 1]))
       IN  rms' = [rms EXCEPT !.i = @ + 1, !.sum = LimbAdd(@, Limbs(sq.num)),
                              !.den = sq.den]
    /\ UNCHANGED <<RUNNING, call, pc, pipe, gstate, requests, bus, msg, result, sched, cb>>

\* line 120: (sum / (samples.len() as f64)).sqrt(): the rms is the square root
\* of sum / (den * len), not a number when that is negative.
RmsFinish ==
    /\ rms.pc = "sum"
    /\ rms.i = Len(rms.samples)
    /\ rms' = [rms EXCEPT !.pc = "done", !.len = Len(rms.samples)]
    /\ UNCHANGED <<RUNNING, call, pc, pipe, gstate, requests, bus, msg, result, sched, cb>>

\* -------------------------------------------------------------------- state

Requested(target, ok) == [target |-> target, ok |-> ok]

\* The callback's invocation: where it stands, the sample it holds and the
\* mapping it has taken, and of the invocation under way (or the last one) the
\* steps taken with their outcome, the element errors raised, whether the rms
\* line was printed and the flow outcome returned. `panicked` is the binding's
\* flag, set once a panic of the closure was caught.
IdleCb == [pc |-> "idle", sample |-> FALSE, mapped |-> FALSE, flow |-> "none",
           steps |-> <<>>, raised |-> <<>>, printed |-> FALSE, panicked |-> FALSE]

Budget(posts, buffers) == [streaming |-> TRUE, posts |-> posts, buffers |-> buffers]

InitRuns ==
    /\ RUNNING = FALSE
    /\ call = [c \in Runs |-> "idle"]
    /\ pipe = [r \in Runs |-> NewPipe]
    /\ gstate = [r \in Runs |-> "Null"]
    /\ requests = [r \in Runs |-> <<>>]
    /\ bus = [r \in Runs |-> <<>>]
    /\ msg = [r \in Runs |-> NoMsg]
    /\ result = [r \in Runs |-> NoResult]
    /\ cb = [r \in Runs |-> IdleCb]

\* The process entry point calls run() once: run 1 stands at create_pipeline.
Init ==
    /\ InitRuns
    /\ pc = [r \in Runs |-> IF r = 1 THEN "create" ELSE "unspawned"]
    /\ sched = [r \in Runs |-> Budget(MaxPosts, MaxBuffers)]
    /\ rms = RmsOff

\* ---------------------------------------------------------------------- run

\* run(): create_pipeline(), and main_loop only on Ok (and_then).
DoCreate(r) ==
    /\ pc[r] = "create"
    /\ \E avail \in Registries, addOk \in BOOLEAN, linkOk \in BOOLEAN :
         LET o == CreatePipeline(avail, addOk, linkOk)
         IN  /\ pipe' = [pipe EXCEPT ![r] = o.pipe]
             /\ IF o.res.tag = "Ok"
                THEN /\ pc' = [pc EXCEPT ![r] = "playing"]
                     /\ UNCHANGED result
                ELSE /\ pc' = [pc EXCEPT ![r] = "returned"]
                     /\ result' = [result EXCEPT ![r] = o.res]
    /\ UNCHANGED <<rms, RUNNING, call, gstate, requests, bus, msg, sched, cb>>

\* main_loop, line 134: pipeline.set_state(gst::State::Playing)?
DoPlaying(r) ==
    /\ pc[r] = "playing"
    /\ \E o \in SetStateOutcomes(gstate[r], "Playing") :
         /\ gstate' = [gstate EXCEPT ![r] = o.state]
         /\ requests' = [requests EXCEPT ![r] = Append(@, Requested("Playing", o.ok))]
         /\ IF o.ok
            THEN /\ pc' = [pc EXCEPT ![r] = "loop"]
                 /\ UNCHANGED result
            ELSE /\ pc' = [pc EXCEPT ![r] = "returned"]
                 /\ result' = [result EXCEPT ![r] = StateChangeError("Playing")]
    /\ UNCHANGED <<rms, RUNNING, call, pipe, bus, msg, sched, cb>>

C17_MutLoopPop(r) ==
    /\ pc[r] = "loop"
    /\ bus[r] # <<>>
    /\ msg' = [msg EXCEPT ![r] = bus[r][Len(bus[r])]]
    /\ bus' = [bus EXCEPT ![r] = SubSeq(@, 1, Len(@) - 1)]
    /\ pc' = [pc EXCEPT ![r] = LoopArm(bus[r][Len(bus[r])])]
    /\ UNCHANGED <<rms, RUNNING, call, pipe, gstate, requests, result, sched, cb>>

\* main_loop, lines 141-161: bus.iter_timed(CLOCK_TIME_NONE) blocks until a
\* message is there, and the match decides where the loop goes.
LoopPop(r) ==
    /\ pc[r] = "loop"
    /\ bus[r] # <<>>
    /\ msg' = [msg EXCEPT ![r] = Head(bus[r])]
    /\ bus' = [bus EXCEPT ![r] = Tail(@)]
    /\ pc' = [pc EXCEPT ![r] = LoopArm(Head(bus[r]))]
    /\ UNCHANGED <<rms, RUNNING, call, pipe, gstate, requests, result, sched, cb>>

C20_MutErrNull(r) ==
    /\ pc[r] = "err_null"
    /\ \E o \in SetStateOutcomes(gstate[r], "Null") :
         /\ gstate' = [gstate EXCEPT ![r] = o.state]
         /\ requests' = [requests EXCEPT ![r] = Append(@, Requested("Null", o.ok))]
         /\ result' = [result EXCEPT ![r] = ErrorArmResult(o.ok, msg[r])]
    /\ pc' = [pc EXCEPT ![r] = "leave"]
    /\ UNCHANGED <<rms, RUNNING, call, pipe, bus, msg, sched, cb>>

\* main_loop, lines 147-157: the Error arm.
ErrNull(r) ==
    /\ pc[r] = "err_null"
    /\ \E o \in SetStateOutcomes(gstate[r], "Null") :
         /\ gstate' = [gstate EXCEPT ![r] = o.state]
         /\ requests' = [requests EXCEPT ![r] = Append(@, Requested("Null", o.ok))]
         /\ result' = [result EXCEPT ![r] = ErrorArmResult(o.ok, msg[r])]
    /\ pc' = [pc EXCEPT ![r] = "returned"]
    /\ UNCHANGED <<rms, RUNNING, call, pipe, bus, msg, sched, cb>>

\* main_loop, lines 162-166: after the loop.
Leave(r) ==
    /\ pc[r] = "leave"
    /\ \E o \in SetStateOutcomes(gstate[r], "Null") :
         /\ gstate' = [gstate EXCEPT ![r] = o.state]
         /\ requests' = [requests EXCEPT ![r] = Append(@, Requested("Null", o.ok))]
         /\ result' = [result EXCEPT ![r] = LeaveResult(o.ok)]
    /\ pc' = [pc EXCEPT ![r] = "returned"]
    /\ UNCHANGED <<rms, RUNNING, call, pipe, bus, msg, sched, cb>>

Controller(r) == DoCreate(r) \/ DoPlaying(r) \/ LoopPop(r) \/ ErrNull(r) \/ Leave(r)

\* ------------------------------------------------- the streaming side, callback

\* gst_element_error!(appsink, gst::ResourceError::Failed, (text)): an error
\* message from the appsink, posted on the pipeline's bus.
CbRaise(err) == ErrorMsg(SinkPath, err, CallbackDebug)

\* The graph posts a message on the bus while it is Playing.
SchedPost(r) ==
    /\ gstate[r] = "Playing"
    /\ sched[r].posts > 0
    /\ \E m \in SchedMessages :
         /\ bus' = [bus EXCEPT ![r] = Append(@, m)]
         /\ sched' = [sched EXCEPT ![r].posts = @ - 1,
                                   ![r].streaming = @ /\ m.kind = "Other"]
    /\ UNCHANGED <<rms, RUNNING, call, pc, pipe, gstate, requests, msg, result, cb>>

\* A sample is ready on the appsink: the scheduler invokes new_sample. Once a
\* panic of the closure was caught the closure is not called again.
SchedDeliver(r) ==
    /\ gstate[r] = "Playing"
    /\ pipe[r].callbacks
    /\ sched[r].streaming
    /\ sched[r].buffers > 0
    /\ cb[r].pc = "idle"
    /\ ~cb[r].panicked
    /\ sched' = [sched EXCEPT ![r].buffers = @ - 1]
    /\ cb' = [cb EXCEPT ![r] = [IdleCb EXCEPT !.pc = "pull"]]
    /\ UNCHANGED <<rms, RUNNING, call, pc, pipe, gstate, requests, bus, msg, result>>

\* One step of the closure and its outcome, in the invocation's record.
CbStep(f, step, ok) == [f EXCEPT !.steps = Append(@, [step |-> step, ok |-> ok])]

C13_MutCbExit(f, flow) == [f EXCEPT !.pc = "idle", !.flow = flow, !.sample = FALSE]

\* The closure returns `flow` (a `?`, the final Ok, or an unwinding panic): its
\* locals `sample` and `map` go out of scope and are dropped.
CbExit(f, flow) ==
    [f EXCEPT !.pc = "idle", !.flow = flow, !.sample = FALSE, !.mapped = FALSE]

\* An element error raised on the appsink in this invocation.
CbRaised(f, err) == [f EXCEPT !.raised = Append(@, err)]

C12_MutCbPull(r) ==
    /\ cb[r].pc = "pull"
    /\ \E ok \in BOOLEAN :
         cb' = [cb EXCEPT ![r] =
                  IF ok THEN [CbStep(@, "pull", TRUE) EXCEPT !.pc = "buffer", !.sample = TRUE]
                  ELSE CbExit(CbStep(@, "pull", FALSE), "Error")]
    /\ UNCHANGED <<rms, RUNNING, call, pc, pipe, gstate, requests, bus, msg, result, sched>>

\* line 70: appsink.pull_sample().map_err(|_| gst::FlowError::Eos)?
CbPull(r) ==
    /\ cb[r].pc = "pull"
    /\ \E ok \in BOOLEAN :
         cb' = [cb EXCEPT ![r] =
                  IF ok THEN [CbStep(@, "pull", TRUE) EXCEPT !.pc = "buffer", !.sample = TRUE]
                  ELSE CbExit(CbStep(@, "pull", FALSE), "Eos")]
    /\ UNCHANGED <<rms, RUNNING, call, pc, pipe, gstate, requests, bus, msg, result, sched>>

C14_MutCbGetBuffer(r) ==
    /\ cb[r].pc = "buffer"
    /\ \E ok \in BOOLEAN :
         IF ok
         THEN /\ cb' = [cb EXCEPT ![r] = [CbStep(@, "buffer", TRUE) EXCEPT !.pc = "map"]]
              /\ UNCHANGED <<bus, gstate>>
         ELSE /\ cb' = [cb EXCEPT ![r] =
                          CbExit(CbRaised(CbStep(@, "buffer", FALSE), GetBufferErr), "Error")]
              /\ bus' = [bus EXCEPT ![r] = Append(@, CbRaise(GetBufferErr))]
              /\ gstate' = [gstate EXCEPT ![r] = "Null"]
    /\ UNCHANGED <<rms, RUNNING, call, pc, pipe, requests, msg, result, sched>>

\* lines 71-79: sample.get_buffer().ok_or_else(...)?
CbGetBuffer(r) ==
    /\ cb[r].pc = "buffer"
    /\ \E ok \in BOOLEAN :
         IF ok
         THEN /\ cb' = [cb EXCEPT ![r] = [CbStep(@, "buffer", TRUE) EXCEPT !.pc = "map"]]
              /\ UNCHANGED bus
         ELSE /\ cb' = [cb EXCEPT ![r] =
                          CbExit(CbRaised(CbStep(@, "buffer", FALSE), GetBufferErr), "Error")]
              /\ bus' = [bus EXCEPT ![r] = Append(@, CbRaise(GetBufferErr))]
    /\ UNCHANGED <<rms, RUNNING, call, pc, pipe, gstate, requests, msg, result, sched>>

\* lines 88-96: buffer.map_readable().map_err(...)?
CbMap(r) ==
    /\ cb[r].pc = "map"
    /\ \E ok \in BOOLEAN :
         IF ok
         THEN /\ cb' = [cb EXCEPT ![r] =
                          [CbStep(@, "map", TRUE) EXCEPT !.pc = "slice", !.mapped = TRUE]]
              /\ UNCHANGED bus
         ELSE /\ cb' = [cb EXCEPT ![r] =
                          CbExit(CbRaised(CbStep(@, "map", FALSE), MapErr), "Error")]
              /\ bus' = [bus EXCEPT ![r] = Append(@, CbRaise(MapErr))]
    /\ UNCHANGED <<rms, RUNNING, call, pc, pipe, gstate, requests, msg, result, sched>>

\* lines 101-109: map.as_slice_of::<i16>().map_err(...)?
CbSlice(r) ==
    /\ cb[r].pc = "slice"
    /\ \E ok \in BOOLEAN :
         IF ok
         THEN /\ cb' = [cb EXCEPT ![r] = [CbStep(@, "slice", TRUE) EXCEPT !.pc = "rms"]]
              /\ UNCHANGED bus
         ELSE /\ cb' = [cb EXCEPT ![r] =
                          CbExit(CbRaised(CbStep(@, "slice", FALSE), SliceErr), "Error")]
              /\ bus' = [bus EXCEPT ![r] = Append(@, CbRaise(SliceErr))]
    /\ UNCHANGED <<rms, RUNNING, call, pc, pipe, gstate, requests, msg, result, sched>>

\* A panic of the closure, caught by the binding's trampoline: it posts an
\* error message from the appsink and hands GST_FLOW_ERROR to the graph.
CbPanicked(text) == ErrorMsg(SinkPath, PanicErr(text), CallbackDebug)

\* lines 113-123: the rms is computed and printed, then Ok. println! panics
\* when the write to stdout fails: the closure unwinds and returns no Ok.
CbRms(r) ==
    /\ cb[r].pc = "rms"
    /\ \E emitOk \in BOOLEAN :
         IF emitOk
         THEN /\ cb' = [cb EXCEPT ![r] =
                          CbExit([CbStep(@, "println", TRUE) EXCEPT !.printed = TRUE], "Ok")]
              /\ UNCHANGED bus
         ELSE /\ cb' = [cb EXCEPT ![r] =
                          [CbExit(CbStep(@, "println", FALSE), "Error")
                             EXCEPT !.panicked = TRUE]]
              /\ bus' = [bus EXCEPT ![r] = Append(@, CbPanicked(StdoutPanic))]
    /\ UNCHANGED <<rms, RUNNING, call, pc, pipe, gstate, requests, msg, result, sched>>

Callback(r) == CbPull(r) \/ CbGetBuffer(r) \/ CbMap(r) \/ CbSlice(r) \/ CbRms(r)

Streaming(r) == SchedPost(r) \/ SchedDeliver(r) \/ Callback(r)

Next == \E r \in Runs : Controller(r) \/ Streaming(r)

Spec == Init /\ [][Next]_vars

\* The controller's thread is scheduled whenever it can take a step.
FairSpec == Spec /\ \A r \in Runs : WF_vars(Controller(r))

\* The rms of every slice of at most MaxLen samples.
InitRms ==
    /\ InitRuns
    /\ pc = [r \in Runs |-> "unspawned"]
    /\ sched = [r \in Runs |-> Budget(0, 0)]
    /\ rms \in {RmsStart(samples) : samples \in SampleSeqs}

NextRms == RmsAccumulate \/ RmsFinish

SpecRms == InitRms /\ [][NextRms]_vars


\* ---------------------------------------------------------------- nativeRun

\* Java_tw_mapacode_androidsink_AndroidSink_nativeRun, line 207: `if !RUNNING`
\* reads the flag; the write of line 208 is a later step of the same call, and
\* nothing orders the two against another thread's.
NativeRunCheck(c) ==
    /\ call[c] = "idle"
    /\ call' = [call EXCEPT ![c] = IF ~RUNNING THEN "set" ELSE "returned"]
    /\ UNCHANGED <<rms, RUNNING, pc, pipe, gstate, requests, bus, msg, result, sched, cb>>

\* lines 208-214: RUNNING = true and the thread that runs run() is spawned.
NativeRunSpawn(c) ==
    /\ call[c] = "set"
    /\ RUNNING' = TRUE
    /\ pc' = [pc EXCEPT ![c] = "create"]
    /\ call' = [call EXCEPT ![c] = "returned"]
    /\ UNCHANGED <<rms, pipe, gstate, requests, bus, msg, result, sched, cb>>

C19_MutThreadStop(r) ==
    /\ pc[r] = "returned"
    /\ pc' = [pc EXCEPT ![r] = "stopped"]
    /\ UNCHANGED <<rms, RUNNING, call, pipe, gstate, requests, bus, msg, result, sched, cb>>

\* lines 212-213: run() has returned in the spawned thread; RUNNING = false.
ThreadStop(r) ==
    /\ pc[r] = "returned"
    /\ RUNNING' = FALSE
    /\ pc' = [pc EXCEPT ![r] = "stopped"]
    /\ UNCHANGED <<rms, call, pipe, gstate, requests, bus, msg, result, sched, cb>>

\* No run exists before nativeRun is called. Each run's graph posts one message
\* and delivers no sample: the runs differ in how they end, which is what the
\* flag sees of them.
InitAndroid ==
    /\ InitRuns
    /\ pc = [r \in Runs |-> "unspawned"]
    /\ sched = [r \in Runs |-> Budget(1, 0)]
    /\ rms = RmsOff

NextAndroid ==
    \/ \E c \in Runs : NativeRunCheck(c) \/ NativeRunSpawn(c)
    \/ \E r \in Runs : Controller(r) \/ SchedPost(r) \/ ThreadStop(r)

SpecAndroid == InitAndroid /\ [][NextAndroid]_vars

\* A thread that has the processor goes on: the caller past its check, the
\* spawned thread past run().
FairAndroid ==
    /\ SpecAndroid
    /\ \A r \in Runs : WF_vars(NativeRunSpawn(r)) /\ WF_vars(ThreadStop(r))

\* Threads executing run(): spawned, and run() not yet returned.
ActiveRuns == {r \in Runs : pc[r] \in {"create", "playing", "loop", "err_null", "leave"}}

\* ------------------------------------------------------------------- claims

\* run()'s create_pipeline().and_then(main_loop) has produced its result.
Returned(r) == pc[r] \in {"returned", "stopped"}

Terminal(m) == m.kind \in {"Eos", "Error"}

BothOk == <<Requested("Playing", TRUE), Requested("Null", TRUE)>>

\* C1: when the graph reached Playing, the message that ended the loop is an
\* Error with source path p and message m, and the set_state(Null) that follows
\* succeeded, main_loop returns a failure whose source path is p and whose
\* message is m, and the graph is in Null.
C1_ErrorCarried ==
    \A r \in Runs :
        (/\ Returned(r)
         /\ msg[r].kind = "Error"
         /\ msg[r].src # NoSrc
         /\ requests[r] = BothOk)
        => /\ result[r].tag = "ErrorMessage"
           /\ result[r].src = msg[r].src
           /\ result[r].error = msg[r].err.message
           /\ gstate[r] = "Null"

C1_Witness ==
    \E r \in Runs :
        /\ Returned(r)
        /\ msg[r] = ErrorMsg(SrcPath, StreamErr, NoDebug)
        /\ requests[r] = BothOk
        /\ result[r].tag = "ErrorMessage"

\* C2: when the loop ended on an Error message and the set_state(Null) that
\* follows was rejected, the value returned is still the failure that carries
\* the message's source path, message and debug detail.
C2_OriginalErrorWins ==
    \A r \in Runs :
        (/\ Returned(r)
         /\ msg[r].kind = "Error"
         /\ Len(requests[r]) = 2
         /\ requests[r][2] = Requested("Null", FALSE))
        => /\ result[r].tag = "ErrorMessage"
           /\ result[r].src = PathString(msg[r].src)
           /\ result[r].error = msg[r].err.message
           /\ result[r].debug = msg[r].debug

\* C3: when the loop ended on EndOfStream, main_loop has left the loop with
\* only Playing requested, it then requests Null, and when that succeeds it
\* returns Ok with the graph in Null.
C3_EosSuccess ==
    \A r \in Runs :
        /\ (msg[r].kind = "Eos" /\ ~Returned(r))
           => pc[r] = "leave" /\ requests[r] = <<Requested("Playing", TRUE)>>
        /\ (msg[r].kind = "Eos" /\ Returned(r))
           => /\ Len(requests[r]) = 2
              /\ requests[r][1] = Requested("Playing", TRUE)
              /\ requests[r][2].target = "Null"
              /\ requests[r][2].ok => (result[r] = OkResult /\ gstate[r] = "Null")

C3_Witness ==
    \E r \in Runs :
        /\ Returned(r)
        /\ msg[r].kind = "Eos"
        /\ requests[r] = BothOk
        /\ result[r] = OkResult
        /\ gstate[r] = "Null"

\* C4: when set_state(Playing) was rejected, Null has been requested by the
\* time the run returns, and the graph is in Null.
C4_NullAfterFailedStart ==
    \A r \in Runs :
        (/\ Returned(r)
         /\ requests[r] # <<>>
         /\ requests[r][1] = Requested("Playing", FALSE))
        => /\ \E i \in DOMAIN requests[r] : requests[r][i].target = "Null"
           /\ gstate[r] = "Null"

\* C5: when a factory lookup failed, create_pipeline fails with MissingElement
\* naming that stage, the failed lookup is the last one made (a failed
\* audiotestsrc lookup means appsink is never requested), nothing is added or
\* linked, no caps and no callback are set, and no set_state call is made: the
\* graph stays in Null.
C5_MissingStage ==
    \A r \in Runs :
        LET made == pipe[r].made
        IN  (Returned(r) /\ \E i \in DOMAIN made : ~made[i].ok)
            => /\ ~made[Len(made)].ok
               /\ \A i \in 1..(Len(made) - 1) : made[i].ok
               /\ result[r].tag = "MissingElement"
               /\ result[r].name = made[Len(made)].name
               /\ ~pipe[r].added
               /\ ~pipe[r].linked
               /\ pipe[r].caps = NoCaps
               /\ ~pipe[r].callbacks
               /\ requests[r] = <<>>
               /\ gstate[r] = "Null"

C5_Witness ==
    \E r \in Runs :
        /\ Returned(r)
        /\ pipe[r].made = <<[name |-> "audiotestsrc", ok |-> FALSE]>>
        /\ result[r] = MissingElement("audiotestsrc")

\* C6: at no time is more than one spawned thread executing run().
C6_AtMostOneRun == Cardinality(ActiveRuns) <= 1

\* C7: once the loop is consuming and a terminal message (Eos or Error) is on
\* the bus, main_loop eventually returns; and the loop is left only by taking a
\* terminal message, so it never exits when none is ever posted.
C7_LoopReturns ==
    /\ \A r \in Runs :
         (pc[r] = "loop" /\ \E i \in DOMAIN bus[r] : Terminal(bus[r][i])) ~> Returned(r)
    /\ [][\A r \in Runs :
            (pc[r] = "loop" /\ pc'[r] # "loop")
            => bus[r] # <<>> /\ Terminal(Head(bus[r]))]_vars

C7_Witness ==
    \E r \in Runs :
        /\ Returned(r)
        /\ Terminal(msg[r])
        /\ Len(requests[r]) = 2
        /\ bus[r] # <<>>

\* A resource error raised by the callback has been published on run r's bus.
ResourceErrorPublished(r) ==
    \/ msg[r].err \in CallbackErrs
    \/ \E i \in DOMAIN bus[r] : bus[r][i].err \in CallbackErrs

\* C8 as stated: after the callback raised a resource error, and as long as the
\* streaming side has published no terminal message of its own, main_loop is
\* still consuming and has not requested Null.
C8_ResourceErrorKeepsLoop ==
    \A r \in Runs :
        (ResourceErrorPublished(r) /\ sched[r].streaming)
        => pc[r] = "loop" /\ Len(requests[r]) = 1

\* C8 as amended: a resource error raised by the callback is published as an
\* Error message whose source is the appsink. While main_loop is still
\* consuming it has not requested Null; once it has taken the resource error it
\* has left the loop, and by the time it returns it has requested Null and,
\* when that succeeded, returns the failure carrying the appsink's path and the
\* resource error's message.
C8_ResourceErrorIsTerminal ==
    \A r \in Runs :
        /\ \A i \in DOMAIN bus[r] :
             bus[r][i].err \in CallbackErrs
             => bus[r][i].kind = "Error" /\ bus[r][i].src = SinkPath
        /\ pc[r] = "loop" => Len(requests[r]) = 1
        /\ msg[r].err \in CallbackErrs => pc[r] \in {"err_null", "returned", "stopped"}
        /\ (msg[r].err \in CallbackErrs /\ Returned(r))
           => /\ Len(requests[r]) = 2
              /\ requests[r][2].target = "Null"
              /\ requests[r][2].ok
                 => /\ result[r].tag = "ErrorMessage"
                    /\ result[r].src = SinkPath
                    /\ result[r].error = msg[r].err.message

C8_Witness ==
    \E r \in Runs :
        /\ Returned(r)
        /\ msg[r].err \in CallbackErrs
        /\ sched[r].streaming
        /\ result[r].tag = "ErrorMessage"

\* C9: a step in which main_loop takes a message that is neither Eos nor Error
\* leaves the loop consuming, the graph's state, the set_state calls made and
\* the result as they were.
C9_OtherIgnored ==
    [][\A r \in Runs :
         (/\ pc[r] = "loop"
          /\ bus[r] # <<>>
          /\ ~Terminal(Head(bus[r]))
          /\ bus'[r] = Tail(bus[r]))
         => /\ pc'[r] = "loop"
            /\ gstate'[r] = gstate[r]
            /\ requests'[r] = requests[r]
            /\ result'[r] = result[r]
            /\ msg'[r] = Head(bus[r])]_vars

\* One ignored message has been taken and the next one stands first on the bus.
C9_Witness ==
    \E r \in Runs :
        /\ pc[r] = "loop"
        /\ msg[r].kind = "Other"
        /\ bus[r] # <<>>
        /\ Head(bus[r]).kind = "Other"
        /\ result[r] = NoResult

\* C10: when the loop ended on EndOfStream and the set_state(Null) that follows
\* was rejected, main_loop returns that StateChangeError, not Ok.
C10_TeardownFailureSurfaces ==
    \A r \in Runs :
        (/\ Returned(r)
         /\ msg[r].kind = "Eos"
         /\ Len(requests[r]) = 2
         /\ requests[r][2] = Requested("Null", FALSE))
        => result[r] = StateChangeError("Null")

C10_Witness ==
    \E r \in Runs :
        /\ Returned(r)
        /\ msg[r].kind = "Eos"
        /\ requests[r] = <<Requested("Playing", TRUE), Requested("Null", FALSE)>>
        /\ result[r].tag = "StateChangeError"

\* Step `step` of the invocation f records succeeded / failed.
StepOk(f, step) == \E i \in DOMAIN f.steps : f.steps[i] = [step |-> step, ok |-> TRUE]

StepFailed(f, step) == \E i \in DOMAIN f.steps : f.steps[i] = [step |-> step, ok |-> FALSE]

\* The resource error each step of the callback raises when it fails.
StepErr(step) ==
    CASE step = "buffer" -> GetBufferErr
      [] step = "map" -> MapErr
      [] step = "slice" -> SliceErr
      [] OTHER -> NoErr

\* C11: an invocation whose pull succeeded returns Ok exactly when get_buffer,
\* map_readable and as_slice_of all succeeded; otherwise it returns Error, the
\* failed step is the last one taken, and exactly one resource error, that
\* step's, was raised.
C11_FlowOutcome ==
    \A r \in Runs :
        LET f == cb[r]
        IN  (f.pc = "idle" /\ StepOk(f, "pull"))
            => /\ f.flow = "Ok"
                  <=> (StepOk(f, "buffer") /\ StepOk(f, "map") /\ StepOk(f, "slice"))
               /\ f.flow # "Ok"
                  => /\ f.flow = "Error"
                     /\ ~f.steps[Len(f.steps)].ok
                     /\ f.raised = <<StepErr(f.steps[Len(f.steps)].step)>>
                     /\ f.raised[1] \in CallbackErrs

\* C12: an invocation whose pull failed returns Eos at once: no further step,
\* no element error raised, nothing printed; and the step that leaves the pull
\* posts nothing on the bus.
C12_PullEos ==
    /\ [](\A r \in Runs :
            StepFailed(cb[r], "pull")
            => /\ cb[r].pc = "idle"
               /\ cb[r].flow = "Eos"
               /\ cb[r].steps = <<[step |-> "pull", ok |-> FALSE]>>
               /\ cb[r].raised = <<>>
               /\ ~cb[r].printed)
    /\ [][\A r \in Runs :
            (cb[r].pc = "pull" /\ cb'[r].pc # "pull") => bus'[r] = bus[r]]_vars

C12_Witness ==
    \E r \in Runs :
        /\ cb[r].pc = "idle"
        /\ cb[r].flow = "Eos"
        /\ StepFailed(cb[r], "pull")

\* C13: between invocations the callback holds no mapping and no sample; a
\* mapping is held only between map_readable and the closure's return.
C13_MappingScoped ==
    \A r \in Runs :
        /\ cb[r].pc = "idle" => (~cb[r].mapped /\ ~cb[r].sample)
        /\ cb[r].mapped => cb[r].pc \in {"slice", "rms"}
        /\ cb[r].pc \in {"slice", "rms"} => cb[r].mapped

\* The invocation returned Error on the reinterpretation, after mapping.
C13_Witness ==
    \E r \in Runs :
        /\ cb[r].pc = "idle"
        /\ StepOk(cb[r], "map")
        /\ StepFailed(cb[r], "slice")
        /\ cb[r].flow = "Error"

\* C14: the graph's state and the record of set_state calls change only in a
\* step of main_loop that calls set_state, which adds one call; no step of the
\* callback changes either.
C14_OnlyControllerSetsState ==
    [][\A r \in Runs :
         /\ (gstate'[r] # gstate[r] \/ requests'[r] # requests[r])
            => /\ pc[r] \in {"playing", "err_null", "leave"}
               /\ pc'[r] # pc[r]
               /\ Len(requests'[r]) = Len(requests[r]) + 1
               /\ cb'[r] = cb[r]
         /\ cb'[r] # cb[r] => (gstate'[r] = gstate[r] /\ requests'[r] = requests[r])]_vars

\* The callback is in the middle of an invocation while main_loop is about to
\* request Null.
C14_Witness ==
    \E r \in Runs :
        /\ cb[r].pc \in {"buffer", "map", "slice", "rms"}
        /\ pc[r] \in {"err_null", "leave"}

\* C15: an invocation that pulled, got the buffer, mapped it and reinterpreted
\* it returns Ok, whether or not printing the rms line succeeded.
C15_EmissionSwallowed ==
    \A r \in Runs :
        LET f == cb[r]
        IN  (/\ f.pc = "idle"
             /\ StepOk(f, "pull")
             /\ StepOk(f, "buffer")
             /\ StepOk(f, "map")
             /\ StepOk(f, "slice"))
            => f.flow = "Ok"

\* C16: for every non-empty slice, the rms is a number and 0 <= rms <=
\* 1 + 1/32767: its square, sum / (den * len) with den = 32767^2, has
\* 0 <= sum <= len * 32768^2.
C16_RmsBounded ==
    rms.pc = "done"
    => /\ rms.len = Len(rms.samples)
       /\ rms.len >= 1
       /\ rms.den = I16Max * I16Max
       /\ LimbLeq(Limbs(0), rms.sum)
       /\ LimbLeq(rms.sum, [hi |-> rms.len * Base, lo |-> 0])

\* Every sample is -32768: the rms is 32768/32767, above 1.0.
C16_Witness ==
    /\ rms.pc = "done"
    /\ rms.samples = <<I16Min, I16Min>>
    /\ rms.sum = [hi |-> 2 * Base, lo |-> 0]

C18_BuildBeforePlaying ==
    \A r \in Runs :
        /\ requests[r] # <<>>
           => /\ pipe[r].linked
              /\ pipe[r].caps = SinkCaps
              /\ pipe[r].callbacks
        /\ (msg[r] # NoMsg \/ pc[r] \in {"loop", "err_null", "leave"} \/ cb[r] # IdleCb)
           => /\ requests[r] # <<>>
              /\ requests[r][1] = Requested("Playing", TRUE)

C18_Witness ==
    \E r \in Runs :
        /\ cb[r].pc = "rms"
        /\ msg[r] # NoMsg
        /\ pc[r] = "loop"

\* A spawned thread that has not yet cleared RUNNING.
LiveThreads == {r \in Runs : pc[r] \in {"create", "playing", "loop", "err_null", "leave", "returned"}}

\* C19: whenever run() has returned in a spawned thread, however it ended, that
\* thread then clears RUNNING; RUNNING is never true with no spawned thread left
\* to clear it; and a nativeRun call that reads RUNNING false spawns a run.
C19_RunningCleared ==
    /\ \A r \in Runs : (pc[r] = "returned") ~> (pc[r] = "stopped")
    /\ [][\A r \in Runs : (pc[r] = "returned" /\ pc'[r] = "stopped") => ~RUNNING']_vars
    /\ [](RUNNING => LiveThreads # {})
    /\ [][\A c \in Runs :
            (call[c] = "idle" /\ call'[c] # "idle" /\ ~RUNNING) => call'[c] = "set"]_vars
    /\ \A c \in Runs : (call[c] = "set") ~> (pc[c] # "unspawned")

\* Run 1 ended on an Error message and cleared the flag; a later call found it
\* false and its run is under way.
C19_Witness ==
    /\ pc[1] = "stopped"
    /\ result[1].tag = "ErrorMessage"
    /\ call[2] = "returned"
    /\ pc[2] = "loop"
    /\ RUNNING

\* C20: the set_state calls of a run are none, or Playing alone, or Playing
\* (accepted) and then Null; Playing is requested only after a successful build
\* and in every run whose build succeeded; and when main_loop returns after
\* Playing was reached, Null has been requested exactly once.
C20_RequestSequence ==
    \A r \in Runs :
        /\ Len(requests[r]) <= 2
        /\ Len(requests[r]) >= 1 => requests[r][1].target = "Playing"
        /\ Len(requests[r]) = 2
           => (requests[r][1].ok /\ requests[r][2].target = "Null")
        /\ requests[r] # <<>> => pipe[r].callbacks
        /\ (Returned(r) /\ pipe[r].callbacks) => Len(requests[r]) >= 1
        /\ (Returned(r) /\ requests[r] # <<>> /\ requests[r][1].ok)
           => Len(requests[r]) = 2

C20_Witness ==
    \E r \in Runs :
        /\ Returned(r)
        /\ msg[r].kind = "Error"
        /\ Len(requests[r]) = 2
        /\ requests[r][2].target = "Null"

====
